---------------------------- MODULE Spec2Model ----------------------------
(***************************************************************************)
(* Model of EnronEventHistory (src/enron_data.py): the event table builder *)
(* (read_csv, expand_recipient_list, to_datetime) and the three            *)
(* aggregation queries over event_history_df.                              *)
(*                                                                         *)
(* A string is a sequence of symbols.  A symbol is the delimiter "|" or an *)
(* indivisible piece of an identifier ("alice", "m1", ...).  An epoch      *)
(* timestamp of d * 86400000 + ms milliseconds is written [day |-> d,      *)
(* ms |-> ms], since the millisecond count itself does not fit the         *)
(* model checker's integers.                                               *)
(***************************************************************************)
EXTENDS Integers, Sequences, FiniteSets, TLC

VARIABLES raw, status, event_history_df, result, ran_before

vars == <<raw, status, event_history_df, result, ran_before>>

(***************************************************************************)
(* Bounds and input domain                                                 *)
(***************************************************************************)
\* largest number of records in the input file
MaxRows == 3

Str(sym) == <<sym>>

Row(d, ms, mid, sender, rcpt) ==
    [event_timestamp |-> [day |-> d, ms |-> ms], message_id |-> Str(mid),
     sender |-> Str(sender), recipient_list |-> rcpt]

\* The records an input file is made of: the three records of the concrete
\* scenario, and records with an empty recipient field, a repeated recipient,
\* a leading delimiter, a message id used by a second sender, and events one
\* and two calendar months later.
RawEvents ==
    { Row(0, 1000, "m1", "alice", <<"bob", "|", "carol">>),
      Row(0, 2000, "m1", "alice", <<"bob">>),
      Row(0, 3000, "m2", "bob", <<"alice">>),
      Row(0, 1000, "m1", "alice", <<>>),
      Row(0, 2000, "m2", "bob", <<"carol", "|", "alice">>),
      Row(31, 0, "m2", "bob", <<"|", "carol">>),
      Row(59, 0, "m2", "alice", <<"bob">>),
      Row(59, 0, "m1", "bob", <<"carol", "|", "carol">>) }

\* The person lists a caller passes to the two distribution queries
PersonLists == { {Str("alice"), Str("bob")}, {Str("bob"), Str("carol")} }

(***************************************************************************)
(* pd.read_csv: an empty field of a text column is read as the missing     *)
(* value NaN (default na_values, keep_default_na=True).                    *)
(***************************************************************************)
NaN == [isna |-> TRUE, str |-> <<>>]

ReadCsvField(text) == IF text = <<>> THEN NaN ELSE [isna |-> FALSE, str |-> text]

\* One parsed record as a row of the values array, columns in usecols order
ReadCsvRow(r) ==
    << r.event_timestamp, ReadCsvField(r.message_id),
       ReadCsvField(r.sender), ReadCsvField(r.recipient_list) >>

read_csv(file) == [i \in 1..Len(file) |-> ReadCsvRow(file[i])]

(***************************************************************************)
(* expand_recipient_list                                                   *)
(***************************************************************************)
\* data.astype(str) on one cell: str(nan) is 'nan'; the decimal text of an
\* integer timestamp is parsed back to the same integer by to_datetime, so
\* the timestamp cell keeps its value.
AsStr(cell) == IF cell.isna THEN <<"nan">> ELSE cell.str

AsTypeStr(data) ==
    [i \in 1..Len(data) |->
        << data[i][1], AsStr(data[i][2]), AsStr(data[i][3]), AsStr(data[i][4]) >>]

\* str.split(sep): the tokens between delimiters, empty tokens kept
RECURSIVE SplitFrom(_, _, _)
SplitFrom(s, sep, cur) ==
    IF s = <<>> THEN <<cur>>
    ELSE IF Head(s) = sep THEN <<cur>> \o SplitFrom(Tail(s), sep, <<>>)
    ELSE SplitFrom(Tail(s), sep, Append(cur, Head(s)))

Split(s, sep) == SplitFrom(s, sep, <<>>)

\* np.concatenate of a sequence of sequences
RECURSIVE Concatenate(_)
Concatenate(seqs) ==
    IF seqs = <<>> THEN <<>> ELSE Head(seqs) \o Concatenate(Tail(seqs))

\* np.arange(n).repeat(counts): row index i repeated counts[i] times
RECURSIVE Repeat(_, _)
Repeat(i, counts) ==
    IF i > Len(counts) THEN <<>>
    ELSE [k \in 1..counts[i] |-> i] \o Repeat(i + 1, counts)

\* the inverse of a permutation of 1..m (argsort)
ArgSort(perm) == [k \in 1..Len(perm) |-> CHOOSE j \in 1..Len(perm) : perm[j] = k]

\* col_idx counts columns from 1.  The result is [ok |-> FALSE] when
\* np.concatenate is given no array (ValueError).
expand_recipient_list(data0, col_idx, sep) ==
    LET data == AsTypeStr(data0)
        n == Len(data)
        m == 4
        col_value == [i \in 1..n |-> data[i][col_idx]]
        other_cols == [k \in 1..(m - 1) |-> IF k < col_idx THEN k ELSE k + 1]
        asrt == ArgSort(<<col_idx>> \o other_cols)
        other_cols_values ==
            [i \in 1..n |-> [k \in 1..(m - 1) |-> data[i][other_cols[k]]]]
        split_value == [i \in 1..n |-> Split(col_value[i], sep)]
        expanded_col_values == Concatenate(split_value)
        counts == [i \in 1..n |-> Len(split_value[i])]
        rpt == Repeat(1, counts)
        stacked == [j \in 1..Len(rpt) |->
                        <<expanded_col_values[j]>> \o other_cols_values[rpt[j]]]
    IN  IF n = 0 THEN [ok |-> FALSE, rows |-> <<>>]
        ELSE [ok |-> TRUE,
              rows |-> [j \in 1..Len(stacked) |->
                            [k \in 1..m |-> stacked[j][asrt[k]]]]]

(***************************************************************************)
(* pd.to_datetime(unit='ms'): the calendar date of an epoch timestamp      *)
(***************************************************************************)
to_datetime(ts) ==
    LET z == ts.day + 719468
        era == z \div 146097
        doe == z - era * 146097
        yoe == (doe - doe \div 1460 + doe \div 36524 - doe \div 146096) \div 365
        doy == doe - (365 * yoe + yoe \div 4 - yoe \div 100)
        mp == (5 * doy + 2) \div 153
        d == doy - (153 * mp + 2) \div 5 + 1
        mo == IF mp < 10 THEN mp + 3 ELSE mp - 9
        y == yoe + era * 400 + (IF mo <= 2 THEN 1 ELSE 0)
    IN  [year |-> y, month |-> mo, day |-> d, ms |-> ts.ms]

\* DataFrame(..., columns=...), rename of recipient_list, and to_datetime
FlatTable(rows) ==
    [j \in 1..Len(rows) |->
        [event_timestamp |-> to_datetime(rows[j][1]), message_id |-> rows[j][2],
         sender |-> rows[j][3], recipient |-> rows[j][4]]]

(***************************************************************************)
(* Data frame helpers                                                      *)
(***************************************************************************)
\* df.loc[df[col].isin(values)]: the rows whose col is in values, in order
LocIsIn(df, col, values) == SelectSeq(df, LAMBDA r : r[col] \in values)

SeqToSet(s) == {s[i] : i \in DOMAIN s}

\* drop_duplicates: the first occurrence of every row is kept
RECURSIVE DropDuplicates(_)
DropDuplicates(df) ==
    IF df = <<>> THEN <<>>
    ELSE LET init == DropDuplicates(SubSeq(df, 1, Len(df) - 1))
             last == df[Len(df)]
         IN  IF last \in SeqToSet(init) THEN init ELSE Append(init, last)

\* Series.count(): the number of values (no cell is null after astype(str))
Count(values) == Len(values)

\* nunique mistaken for the number of values
NUniqueAsCount(values) == Len(values)

\* Series.nunique(): the number of distinct values
NUnique(values) == Cardinality(SeqToSet(values))

\* the keys of groupby(col)
GroupKeys(df, col) == {df[i][col] : i \in DOMAIN df}

\* the sub-frame of one group
Group(df, col, key) == LocIsIn(df, col, {key})

Column(df, col) == [i \in DOMAIN df |-> df[i][col]]

\* nunique taken over the whole frame instead of the group
GroupByNUniqueUngrouped(df, keycol, valcol) ==
    [key \in GroupKeys(df, keycol) |-> NUnique(Column(df, valcol))]

\* groupby(keycol)[valcol].nunique(): key -> number of distinct values
GroupByNUnique(df, keycol, valcol) ==
    [key \in GroupKeys(df, keycol) |-> NUnique(Column(Group(df, keycol, key), valcol))]

\* a missing cell of a joined or unstacked frame is <<>>, a present one <<v>>
FillNa(cell, v) == IF cell = <<>> THEN v ELSE cell[1]

\* an inner join in place of the outer join
MergeInner(sent, received) ==
    { [person |-> p, sent |-> <<sent[p]>>, received |-> <<received[p]>>]
      : p \in (DOMAIN sent) \cap (DOMAIN received) }

\* pd.merge(how='outer', on='person') of two key -> count tables
MergeOuter(sent, received) ==
    { [person |-> p,
       sent |-> IF p \in DOMAIN sent THEN <<sent[p]>> ELSE <<>>,
       received |-> IF p \in DOMAIN received THEN <<received[p]>> ELSE <<>>]
      : p \in (DOMAIN sent) \cup (DOMAIN received) }

\* the sort with ascending=True
RECURSIVE SortValuesAscending(_)
SortValuesAscending(rows) ==
    IF rows = {} THEN {<<>>}
    ELSE UNION { { <<r>> \o rest : rest \in SortValuesAscending(rows \ {r}) }
                 : r \in {x \in rows : \A y \in rows : x.sent <= y.sent} }

\* sort_values(by='sent', ascending=False) with the default kind
\* 'quicksort': the rows in descending order of sent; the sort is not
\* stable, so rows with equal sent come out in any order.
RECURSIVE SortValuesDescending(_)
SortValuesDescending(rows) ==
    IF rows = {} THEN {<<>>}
    ELSE UNION { { <<r>> \o rest : rest \in SortValuesDescending(rows \ {r}) }
                 : r \in {x \in rows : \A y \in rows : x.sent >= y.sent} }

(***************************************************************************)
(* generate_email_count_stats                                              *)
(***************************************************************************)
\* the frame before the final sort, as a set of rows
EmailCountStats(df) ==
    LET sender_count_stats_df == GroupByNUnique(df, "sender", "message_id")
        recipient_count_stats_df == GroupByNUnique(df, "recipient", "message_id")
        merged == MergeOuter(sender_count_stats_df, recipient_count_stats_df)
    IN  { [person |-> r.person, sent |-> FillNa(r.sent, 0),
           received |-> FillNa(r.received, 0)] : r \in merged }

(***************************************************************************)
(* Monthly resampling                                                      *)
(***************************************************************************)
\* the calendar month of a datetime, counted from year 0
MonthOf(dt) == dt.year * 12 + dt.month - 1

MinOf(S) == CHOOSE x \in S : \A y \in S : x <= y
MaxOf(S) == CHOOSE x \in S : \A y \in S : x >= y

\* the aggregation applied to the values of one bin
Aggregate(agg, values) == IF agg = "count" THEN Count(values) ELSE NUnique(values)

\* the rows of g whose timestamp falls in month mth
Bin(g, mth) == SelectSeq(g, LAMBDA r : MonthOf(r.event_timestamp) = mth)

\* resample('M') of one group: every month from the group's first to its
\* last event, each with the aggregate of valcol over the rows of that
\* month (an empty month aggregates the empty series).
Resample(g, valcol, agg) ==
    LET months == {MonthOf(g[i].event_timestamp) : i \in DOMAIN g}
    IN  [mth \in MinOf(months)..MaxOf(months) |->
            Aggregate(agg, Column(Bin(g, mth), valcol))]

\* groupby(keycol)[valcol].resample('M').agg().unstack(keycol).fillna(0)
GroupByResampleUnstack(df, keycol, valcol, agg) ==
    LET columns == GroupKeys(df, keycol)
        series == [key \in columns |-> Resample(Group(df, keycol, key), valcol, agg)]
        index == UNION {DOMAIN series[key] : key \in columns}
    IN  [index |-> index, columns |-> columns,
         value |-> [c \in index \X columns |->
                      FillNa(IF c[1] \in DOMAIN series[c[2]]
                             THEN <<series[c[2]][c[1]]>> ELSE <<>>, 0)]]

(***************************************************************************)
(* generate_sent_email_count_distribution                                  *)
(***************************************************************************)
\* The filter, the column selection and drop_duplicates.  set_index and
\* sort_index then reorder this private copy by timestamp; the bins and their
\* counts do not depend on the order of the rows.
SentFiltered(df, sender_list) ==
    LET filtered == LocIsIn(df, "sender", sender_list)
        cols == [i \in DOMAIN filtered |->
                    [event_timestamp |-> filtered[i].event_timestamp,
                     sender |-> filtered[i].sender,
                     message_id |-> filtered[i].message_id]]
    IN  DropDuplicates(cols)

SentEmailCountDistribution(df, sender_list) ==
    GroupByResampleUnstack(SentFiltered(df, sender_list), "sender", "message_id", "count")

(***************************************************************************)
(* generate_relative_unique_contacts_distribution                          *)
(***************************************************************************)
\* The filter; set_index and sort_index reorder the filtered copy only.
ContactsFiltered(df, recipient_list) == LocIsIn(df, "recipient", recipient_list)

\* float division x / total: 0.0 / 0.0 is NaN
Div(x, total) ==
    IF total = 0 THEN [isnan |-> TRUE, num |-> 0, den |-> 0]
    ELSE [isnan |-> FALSE, num |-> x, den |-> total]

RECURSIVE SumOver(_, _)
SumOver(S, f) ==
    IF S = {} THEN 0
    ELSE LET x == CHOOSE y \in S : TRUE IN f[x] + SumOver(S \ {x}, f)

\* DataFrame.sum(axis=1): the total of one month's row
RowSum(t, mth) == SumOver(t.columns, [p \in t.columns |-> t.value[<<mth, p>>]])

\* DataFrame.div(sum(axis=1), axis=0)
DivRows(t) ==
    [index |-> t.index, columns |-> t.columns,
     value |-> [c \in t.index \X t.columns |-> Div(t.value[c], RowSum(t, c[1]))]]

UniqueContacts(df, recipient_list) ==
    GroupByResampleUnstack(ContactsFiltered(df, recipient_list), "recipient", "sender", "nunique")

RelativeUniqueContactsDistribution(df, recipient_list) ==
    DivRows(UniqueContacts(df, recipient_list))

(***************************************************************************)
(* self.event_history_df after each query                                  *)
(***************************************************************************)
\* generate_email_count_stats only reads the table: groupby, nunique, rename
\* and reset_index return new frames, and the in-place rename, fillna and
\* sort_values act on those.
CountsQueryTable(df) == df

\* .loc[mask][filtered_cols] is a new frame; drop_duplicates, set_index and
\* sort_index (inplace=True) change that frame, not the table.
SentQueryTable(df, sender_list) == df

\* the in-place operations reaching the table: it is left as the filtered frame
ContactsQueryTableFiltered(df, recipient_list) == LocIsIn(df, "recipient", recipient_list)

\* .loc[mask] with a boolean mask is a new frame; set_index and sort_index
\* (inplace=True) change that frame, not the table.
ContactsQueryTable(df, recipient_list) == df

(***************************************************************************)
(* The program.  result holds what the last query returned, ran_before     *)
(* whether another query had run before that one; writing the CSV file and *)
(* the plots is left to the file system and the plotting library.          *)
(***************************************************************************)
NoResult == [op |-> "none"]

Init ==
    /\ raw = <<>>
    /\ status = "reading"
    /\ event_history_df = <<>>
    /\ result = NoResult
    /\ ran_before = FALSE

\* one more record of the input file
ReadRow ==
    /\ status = "reading"
    /\ Len(raw) < MaxRows
    /\ \E r \in RawEvents : raw' = Append(raw, r)
    /\ UNCHANGED <<status, event_history_df, result, ran_before>>

\* EnronEventHistory.__init__
Construct ==
    /\ status = "reading"
    /\ LET expanded == expand_recipient_list(read_csv(raw), 4, "|")
       IN  IF expanded.ok
           THEN /\ status' = "built"
                /\ event_history_df' = FlatTable(expanded.rows)
           ELSE /\ status' = "failed"
                /\ UNCHANGED event_history_df
    /\ UNCHANGED <<raw, result, ran_before>>

generate_email_count_stats ==
    /\ status = "built"
    /\ \E sorted \in SortValuesDescending(EmailCountStats(event_history_df)) :
          result' = [op |-> "counts", ok |-> TRUE, value |-> sorted]
    /\ event_history_df' = CountsQueryTable(event_history_df)
    /\ ran_before' = (result.op # "none")
    /\ UNCHANGED <<raw, status>>

\* With no event of a listed sender, groupby(...).resample(...).unstack(...)
\* of the empty frame gives an empty table or raises, depending on the
\* library version.
generate_sent_email_count_distribution ==
    /\ status = "built"
    /\ \E sender_list \in PersonLists :
          /\ IF SentFiltered(event_history_df, sender_list) # <<>>
             THEN result' = [op |-> "sent", ok |-> TRUE, arg |-> sender_list,
                             value |-> SentEmailCountDistribution(event_history_df, sender_list)]
             ELSE \/ result' = [op |-> "sent", ok |-> TRUE, arg |-> sender_list,
                                value |-> [index |-> {}, columns |-> {}, value |-> <<>>]]
                  \/ result' = [op |-> "sent", ok |-> FALSE, arg |-> sender_list]
          /\ event_history_df' = SentQueryTable(event_history_df, sender_list)
    /\ ran_before' = (result.op # "none")
    /\ UNCHANGED <<raw, status>>

generate_relative_unique_contacts_distribution ==
    /\ status = "built"
    /\ \E recipient_list \in PersonLists :
          /\ IF ContactsFiltered(event_history_df, recipient_list) # <<>>
             THEN result' = [op |-> "contacts", ok |-> TRUE, arg |-> recipient_list,
                             value |-> RelativeUniqueContactsDistribution(event_history_df, recipient_list)]
             ELSE \/ result' = [op |-> "contacts", ok |-> TRUE, arg |-> recipient_list,
                                value |-> [index |-> {}, columns |-> {}, value |-> <<>>]]
                  \/ result' = [op |-> "contacts", ok |-> FALSE, arg |-> recipient_list]
          /\ event_history_df' = ContactsQueryTable(event_history_df, recipient_list)
    /\ ran_before' = (result.op # "none")
    /\ UNCHANGED <<raw, status>>

Next ==
    \/ ReadRow
    \/ Construct
    \/ generate_email_count_stats
    \/ generate_sent_email_count_distribution
    \/ generate_relative_unique_contacts_distribution

Spec == Init /\ [][Next]_vars

(***************************************************************************)
(* Notions the properties are stated with                                  *)
(***************************************************************************)
Built == status = "built"

RECURSIVE SumSeq(_)
SumSeq(s) == IF s = <<>> THEN 0 ELSE Head(s) + SumSeq(Tail(s))

\* the number of tokens of a field: one more than its delimiters
TokenCount(field) == Cardinality({k \in DOMAIN field : field[k] = "|"}) + 1

TokenCounts == [i \in DOMAIN raw |-> TokenCount(raw[i].recipient_list)]

\* the number of flat events emitted for the records before record i
Offset(i) == SumSeq(SubSeq(TokenCounts, 1, i - 1))

\* the positions of the flat events emitted for record i
Block(i) == (Offset(i) + 1)..(Offset(i) + TokenCounts[i])

Triple(ts, mid, sender) == <<ts, mid, sender>>

RawTriple(i) ==
    Triple(to_datetime(raw[i].event_timestamp), raw[i].message_id, raw[i].sender)

FlatTriple(j) ==
    Triple(event_history_df[j].event_timestamp, event_history_df[j].message_id,
           event_history_df[j].sender)

\* how often value v occurs in sequence s
Occurrences(s, v) == Cardinality({k \in DOMAIN s : s[k] = v})

FlatEvents == SeqToSet(event_history_df)

Senders == {e.sender : e \in FlatEvents}
Recipients == {e.recipient : e \in FlatEvents}

\* the distinct message ids sent by p, received by p
SentIds(p) == {e.message_id : e \in {x \in FlatEvents : x.sender = p}}
ReceivedIds(p) == {e.message_id : e \in {x \in FlatEvents : x.recipient = p}}

CountsDone == result.op = "counts"

CountRows == SeqToSet(result.value)

\* the three records of the concrete scenario
Scenario ==
    << Row(0, 1000, "m1", "alice", <<"bob", "|", "carol">>),
       Row(0, 2000, "m1", "alice", <<"bob">>),
       Row(0, 3000, "m2", "bob", <<"alice">>) >>

(***************************************************************************)
(* C1  Expansion cardinality                                               *)
(***************************************************************************)
\* C1: the flat table has as many events as the records' recipient fields
\* have tokens, and a record with an empty recipient field yields exactly
\* one flat event, whose recipient is the empty string.
C1_ExpansionCardinality ==
    Built =>
        /\ Len(event_history_df) = SumSeq(TokenCounts)
        /\ \A i \in DOMAIN raw :
              raw[i].recipient_list = <<>> =>
                  /\ TokenCounts[i] = 1
                  /\ event_history_df[Offset(i) + 1].recipient = <<>>

(***************************************************************************)
(* C2  Field alignment                                                     *)
(***************************************************************************)
\* C2: every flat event's (timestamp, message_id, sender) is that of exactly
\* one record, and the recipients of the flat events with that triple are, as
\* a multiset, the tokens of that record's recipient field.
C2_FieldAlignment ==
    Built =>
        \A j \in DOMAIN event_history_df :
            /\ Cardinality({i \in DOMAIN raw : RawTriple(i) = FlatTriple(j)}) = 1
            /\ \A i \in DOMAIN raw :
                  RawTriple(i) = FlatTriple(j) =>
                      LET tokens == Split(raw[i].recipient_list, "|")
                          shared == Column(SelectSeq(event_history_df,
                                        LAMBDA e : Triple(e.event_timestamp, e.message_id,
                                                          e.sender) = RawTriple(i)),
                                        "recipient")
                      IN  \A v \in SeqToSet(tokens) \cup SeqToSet(shared) :
                              Occurrences(shared, v) = Occurrences(tokens, v)

(***************************************************************************)
(* C3  Counts are of distinct messages                                     *)
(***************************************************************************)
\* C3: in the count statistics, every person's sent is the number of distinct
\* message ids among the flat events the person sent, and received the number
\* of distinct message ids among those the person received; in the concrete
\* scenario alice and bob each have sent 1 and received 1.
C3_DistinctMessageCounts ==
    CountsDone =>
        /\ \A p \in Senders \cup Recipients :
              \E r \in CountRows :
                  /\ r.person = p
                  /\ r.sent = Cardinality(SentIds(p))
                  /\ r.received = Cardinality(ReceivedIds(p))
        /\ raw = Scenario =>
              /\ Len(event_history_df) = 4
              /\ [person |-> Str("alice"), sent |-> 1, received |-> 1] \in CountRows
              /\ [person |-> Str("bob"), sent |-> 1, received |-> 1] \in CountRows

\* the count statistics of the concrete scenario have been computed
C3_Witness == CountsDone /\ raw = Scenario

(***************************************************************************)
(* C4  Count conservation                                                  *)
(***************************************************************************)
RECURSIVE SumSent(_)
SumSent(rows) ==
    IF rows = {} THEN 0
    ELSE LET r == CHOOSE x \in rows : TRUE IN r.sent + SumSent(rows \ {r})

SourceIds == {raw[i].message_id : i \in DOMAIN raw}

FlatIds == {e.message_id : e \in FlatEvents}

\* some message id is used by two senders
SharedId == \E e, f \in FlatEvents : e.message_id = f.message_id /\ e.sender # f.sender

\* C4 as stated: the sent counts add up to the number of distinct message ids
\* of the source.
C4_SumIsDistinctIds == CountsDone => SumSent(CountRows) = Cardinality(SourceIds)

\* C4 amended: the sent counts add up to the number of distinct
\* (sender, message_id) pairs of the flat table, which is the number of
\* distinct message ids exactly when no message id is used by two senders;
\* it is not the number of flat events.
C4_SumIsDistinctSenderIdPairs ==
    CountsDone =>
        /\ SumSent(CountRows) = Cardinality({<<e.sender, e.message_id>> : e \in FlatEvents})
        /\ (SumSent(CountRows) = Cardinality(FlatIds)) <=> ~SharedId

\* count statistics of a table where one message id has two senders and some
\* message has several flat events
C4_Witness ==
    /\ CountsDone
    /\ SharedId
    /\ SumSent(CountRows) < Len(event_history_df)

(***************************************************************************)
(* C5  Persons of the count statistics                                     *)
(***************************************************************************)
\* C5: the persons of the count statistics are exactly the senders and the
\* recipients of the flat table, one row each; a person who only sends has
\* received 0, a person who only receives has sent 0, and both counts are
\* natural numbers.
C5_PersonSet ==
    CountsDone =>
        /\ {r.person : r \in CountRows} = Senders \cup Recipients
        /\ \A i, j \in DOMAIN result.value :
              result.value[i].person = result.value[j].person => i = j
        /\ \A r \in CountRows :
              /\ r.sent \in Nat /\ r.received \in Nat
              /\ r.person \notin Recipients => r.received = 0
              /\ r.person \notin Senders => r.sent = 0

\* count statistics with a person who only sends and one who only receives
C5_Witness ==
    /\ CountsDone
    /\ Senders \ Recipients # {}
    /\ Recipients \ Senders # {}

(***************************************************************************)
(* C6  Densification completeness                                          *)
(***************************************************************************)
SentDone == result.op = "sent"

EventMonths == {MonthOf(e.event_timestamp) : e \in FlatEvents}

\* the distinct message ids p sent in month mth
SentIdsIn(p, mth) ==
    {e.message_id :
        e \in {x \in FlatEvents : x.sender = p /\ MonthOf(x.event_timestamp) = mth}}

\* C6: the monthly sent counts have one entry for every requested person and
\* every calendar month from the earliest to the latest event month, 0 where
\* the person sent nothing; a requested person who never appears in the flat
\* table has a series of zeros.
C6_DenseSeries ==
    SentDone =>
        /\ result.ok
        /\ result.value.columns = result.arg
        /\ result.value.index = MinOf(EventMonths)..MaxOf(EventMonths)
        /\ \A c \in DOMAIN result.value.value :
              SentIdsIn(c[2], c[1]) = {} => result.value.value[c] = 0

(***************************************************************************)
(* C7  Monthly sent counts are of distinct messages                        *)
(***************************************************************************)
\* C7: every value of the monthly sent counts is the number of distinct
\* message ids the person sent in that month, a message id occurring in
\* several flat events of the sender and month, also with different
\* timestamps, being counted once.
C7_MonthlyDistinctIds ==
    (SentDone /\ result.ok) =>
        \A c \in DOMAIN result.value.value :
            result.value.value[c] = Cardinality(SentIdsIn(c[2], c[1]))

(***************************************************************************)
(* C8  Normalization with zero division                                    *)
(***************************************************************************)
ContactsDone == result.op = "contacts"

\* the distinct senders p received from in month mth
ContactsIn(p, mth) ==
    {e.sender :
        e \in {x \in FlatEvents : x.recipient = p /\ MonthOf(x.event_timestamp) = mth}}

ContactTotal(mth) ==
    SumOver(result.arg, [p \in result.arg |-> Cardinality(ContactsIn(p, mth))])

\* C8: every value of the relative contacts is the person's number of
\* distinct senders of the month divided by the total over the requested
\* people, a fraction in [0, 1]; the values of a month add up to 1, or all
\* are 0 when the total is 0; no value is NaN.
C8_NormalizationLaw ==
    (ContactsDone /\ result.ok) =>
        \A c \in DOMAIN result.value.value :
            LET v == result.value.value[c]
                total == ContactTotal(c[1])
            IN  /\ ~v.isnan
                /\ total = 0 => v.num = 0
                /\ total > 0 =>
                      /\ v.den > 0 /\ 0 <= v.num /\ v.num <= v.den
                      /\ v.num * total = Cardinality(ContactsIn(c[2], c[1])) * v.den

(***************************************************************************)
(* C9  Order of the count statistics                                       *)
(***************************************************************************)
\* the place of a person's first appearance in the flat table, read row by
\* row, the sender of a row before its recipient
FirstAppearance(p) ==
    MinOf({2 * j - 1 : j \in {k \in DOMAIN event_history_df : event_history_df[k].sender = p}}
          \cup {2 * j : j \in {k \in DOMAIN event_history_df : event_history_df[k].recipient = p}})

\* C9 as stated: the count statistics are in descending order of sent, rows
\* with equal sent in the order of the persons' first appearance in the input.
C9_DescendingStable ==
    CountsDone =>
        \A i, j \in DOMAIN result.value :
            i < j =>
                /\ result.value[i].sent >= result.value[j].sent
                /\ result.value[i].sent = result.value[j].sent =>
                      FirstAppearance(result.value[i].person)
                          < FirstAppearance(result.value[j].person)

\* C9 amended: the count statistics are in descending order of sent (no row
\* has a larger sent than a row before it); the order of rows with equal
\* sent is not fixed.
C9_Descending ==
    CountsDone =>
        \A i, j \in DOMAIN result.value :
            i < j => result.value[i].sent >= result.value[j].sent

\* count statistics with rows of different sent and two rows of equal sent
C9_Witness ==
    /\ CountsDone
    /\ \E i, j \in DOMAIN result.value : result.value[i].sent > result.value[j].sent
    /\ \E i, j \in DOMAIN result.value :
          i < j /\ result.value[i].sent = result.value[j].sent

(***************************************************************************)
(* C10  Empty input                                                        *)
(***************************************************************************)
\* C10: with no record in the input, the flat table is built with zero flat
\* events, and each of the three queries completes with an empty result.
C10_EmptyInput ==
    (raw = <<>> /\ status # "reading") =>
        /\ Built
        /\ event_history_df = <<>>
        /\ result.op # "none" => result.ok

(***************************************************************************)
(* C11  The queries leave the flat table alone                             *)
(***************************************************************************)
\* the flat table as __init__ builds it from the input
FreshTable == FlatTable(expand_recipient_list(read_csv(raw), 4, "|").rows)

EmptyTable == [index |-> {}, columns |-> {}, value |-> <<>>]

C11_TableUnchanged == [][Built => event_history_df' = event_history_df]_vars

=============================================================================
